---- MODULE Spec2Model ----
(***************************************************************************)
(* A model of the LA crime-data pipeline of lapd.py: one table (df) is     *)
(* loaded, its column names are normalised, date and time are parsed, the  *)
(* calendar columns are derived, the KPI block is printed and eleven       *)
(* charts are written.  The table is column oriented, as in pandas: df is  *)
(* a function from column name to the sequence of that column's cells.     *)
(* Text is a sequence of one-character strings.  A missing value (NaN,     *)
(* NaT) is the empty sequence, a present scalar v is <<v>>.                *)
(***************************************************************************)
EXTENDS Integers, Sequences, FiniteSets, TLC

VARIABLES csv, pc, df, out, figs, err, monthly, pivot, pivot2,
          valid_ages, ages, max_descent, counts, descent_counts, sub

vars == <<csv, pc, df, out, figs, err, monthly, pivot, pivot2,
          valid_ages, ages, max_descent, counts, descent_counts, sub>>

\* ------------------------------------------------------------------ bounds
\* the number of rows a table has beyond its fixed first rows
MaxRows == 2

\* the same for the tables of the monthly series
MaxDatedRows == 3

\* --------------------------------------------------------- generic helpers
NaN == <<>>

Some(v) == <<v>>

IsNA(c) == c = <<>>

Range(s) == {s[i] : i \in 1..Len(s)}

Min2(a, b) == IF a <= b THEN a ELSE b

SeqsUpTo(S, n) == UNION {[1..k -> S] : k \in 0..n}

\* ------------------------------------------------------------- text model
Digits == <<"0", "1", "2", "3", "4", "5", "6", "7", "8", "9">>

UpperLetters == <<"A", "B", "C", "D", "E", "F", "G", "H", "I", "J", "K", "L", "M",
                  "N", "O", "P", "Q", "R", "S", "T", "U", "V", "W", "X", "Y", "Z">>

LowerLetters == <<"a", "b", "c", "d", "e", "f", "g", "h", "i", "j", "k", "l", "m",
                  "n", "o", "p", "q", "r", "s", "t", "u", "v", "w", "x", "y", "z">>

IsDigit(c) == c \in Range(Digits)

DigitVal(c) == (CHOOSE i \in 1..10 : Digits[i] = c) - 1

IsSpace(c) == c = " "

\* \w of the regular expression: letters, digits and the underscore
IsWord(c) == c \in Range(UpperLetters) \cup Range(LowerLetters) \cup Range(Digits) \cup {"_"}

\* str.lower on one character
LowerChar(c) ==
    IF c \in Range(UpperLetters)
    THEN LowerLetters[CHOOSE i \in 1..26 : UpperLetters[i] = c]
    ELSE c

\* str.strip
RECURSIVE StripLeft(_)
StripLeft(s) ==
    IF s # <<>> /\ IsSpace(Head(s)) THEN StripLeft(Tail(s)) ELSE s

RECURSIVE StripRight(_)
StripRight(s) ==
    IF s # <<>> /\ IsSpace(s[Len(s)]) THEN StripRight(SubSeq(s, 1, Len(s) - 1)) ELSE s

Strip(s) == StripRight(StripLeft(s))

Lower(s) == [i \in 1..Len(s) |-> LowerChar(s[i])]

\* str.replace(r"[^\w]+", "_", regex=True): every maximal run of non-word
\* characters becomes one underscore
RECURSIVE ReplaceNonWord(_)
ReplaceNonWord(s) ==
    IF s = <<>> THEN <<>>
    ELSE IF IsWord(Head(s)) THEN <<Head(s)>> \o ReplaceNonWord(Tail(s))
    ELSE IF Len(s) > 1 /\ ~IsWord(s[2]) THEN ReplaceNonWord(Tail(s))
    ELSE <<"_">> \o ReplaceNonWord(Tail(s))

NormalizeName(h) == ReplaceNonWord(Lower(Strip(h)))

\* str(n) of a non-negative integer
RECURSIVE IntToStr(_)
IntToStr(n) ==
    IF n < 10 THEN <<Digits[n + 1]>>
    ELSE IntToStr(n \div 10) \o <<Digits[(n % 10) + 1]>>

\* the value of a string of digits
RECURSIVE DigitsToInt(_)
DigitsToInt(s) ==
    IF s = <<>> THEN 0
    ELSE 10 * DigitsToInt(SubSeq(s, 1, Len(s) - 1)) + DigitVal(s[Len(s)])

AllDigits(s) == s # <<>> /\ \A i \in 1..Len(s) : IsDigit(s[i])

\* pd.to_numeric(text, errors="coerce"): a decimal integer, optionally signed
\* or with a bare trailing point, parses; any other text becomes NaN
ParseNumber(s) ==
    IF AllDigits(s) THEN Some(DigitsToInt(s))
    ELSE IF Len(s) > 1 /\ s[1] = "-" /\ AllDigits(Tail(s)) THEN Some(0 - DigitsToInt(Tail(s)))
    ELSE IF Len(s) > 1 /\ s[Len(s)] = "." /\ AllDigits(SubSeq(s, 1, Len(s) - 1))
         THEN Some(DigitsToInt(SubSeq(s, 1, Len(s) - 1)))
    ELSE NaN

\* ------------------------------------------------------- column names
\* the headers of the published CSV file, as read_csv returns them
H_DR_NO == <<"D", "R", "_", "N", "O">>

H_DATE_RPTD == <<"D", "a", "t", "e", " ", "R", "p", "t", "d">>

H_DATE_OCC == <<"D", "A", "T", "E", " ", "O", "C", "C">>

H_TIME_OCC == <<"T", "I", "M", "E", " ", "O", "C", "C">>

H_AREA_NAME == <<"A", "R", "E", "A", " ", "N", "A", "M", "E">>

H_CRM_CD_DESC == <<"C", "r", "m", " ", "C", "d", " ", "D", "e", "s", "c">>

H_VICT_AGE == <<"V", "i", "c", "t", " ", "A", "g", "e">>

H_VICT_SEX == <<"V", "i", "c", "t", " ", "S", "e", "x">>

H_VICT_DESCENT == <<"V", "i", "c", "t", " ", "D", "e", "s", "c", "e", "n", "t">>

H_LAT == <<"L", "A", "T">>

H_LON == <<"L", "O", "N">>

\* one of the columns of the file that the script never reads
H_STATUS == <<"S", "t", "a", "t", "u", "s">>

Headers == {H_DR_NO, H_DATE_RPTD, H_DATE_OCC, H_TIME_OCC, H_AREA_NAME, H_CRM_CD_DESC, H_VICT_AGE, H_VICT_SEX, H_VICT_DESCENT, H_LAT, H_LON}

\* the column names the script uses after normalisation
dr_no == <<"d", "r", "_", "n", "o">>

date_rptd == <<"d", "a", "t", "e", "_", "r", "p", "t", "d">>

date_occ == <<"d", "a", "t", "e", "_", "o", "c", "c">>

time_occ == <<"t", "i", "m", "e", "_", "o", "c", "c">>

area_name == <<"a", "r", "e", "a", "_", "n", "a", "m", "e">>

crm_cd_desc == <<"c", "r", "m", "_", "c", "d", "_", "d", "e", "s", "c">>

vict_age == <<"v", "i", "c", "t", "_", "a", "g", "e">>

vict_sex == <<"v", "i", "c", "t", "_", "s", "e", "x">>

vict_descent == <<"v", "i", "c", "t", "_", "d", "e", "s", "c", "e", "n", "t">>

lat == <<"l", "a", "t">>

lon == <<"l", "o", "n">>

hour == <<"h", "o", "u", "r">>

year == <<"y", "e", "a", "r">>

month == <<"m", "o", "n", "t", "h">>

weekday == <<"w", "e", "e", "k", "d", "a", "y">>

month_year == <<"m", "o", "n", "t", "h", "_", "y", "e", "a", "r">>

\* ---------------------------------------------------------- calendar
IsLeap(y) == (y % 4 = 0 /\ y % 100 # 0) \/ y % 400 = 0

DaysInMonth(y, m) ==
    IF m = 2 THEN (IF IsLeap(y) THEN 29 ELSE 28)
    ELSE IF m \in {4, 6, 9, 11} THEN 30 ELSE 31

\* the number of leap years among the years 1..y
LeapsUpTo(y) == (y \div 4) - (y \div 100) + (y \div 400)

\* the number of days from 1970-01-01 to the first day of year y (y >= 1970)
DaysBeforeYear(y) == 365 * (y - 1970) + LeapsUpTo(y - 1) - LeapsUpTo(1969)

RECURSIVE DaysBeforeMonth(_, _)
DaysBeforeMonth(y, m) ==
    IF m <= 1 THEN 0 ELSE DaysBeforeMonth(y, m - 1) + DaysInMonth(y, m - 1)

\* a Timestamp as its day count since the epoch
Ordinal(t) == DaysBeforeYear(t.y) + DaysBeforeMonth(t.y, t.m) + (t.d - 1)

WEEKDAYS == <<"Monday", "Tuesday", "Wednesday", "Thursday", "Friday", "Saturday", "Sunday">>

\* Timestamp.day_name(): 1970-01-01 was a Thursday
DayName(t) == WEEKDAYS[((Ordinal(t) + 3) % 7) + 1]

\* a period of one year instead of one month
ToPeriodYearly(t) == [y |-> t.y, m |-> 1]

\* Timestamp.to_period("M")
ToPeriod(t) == [y |-> t.y, m |-> t.m]

\* the order of Timestamps: year, month and day compared in turn
DateLE(a, b) ==
    \/ a.y < b.y
    \/ a.y = b.y /\ a.m < b.m
    \/ a.y = b.y /\ a.m = b.m /\ a.d <= b.d

\* pd.to_datetime(cell, errors="coerce") of one cell.  A cell of the file is
\* the text MM/DD/YYYY, held as its three numbers <<mm, dd, yyyy>>; a
\* missing cell, or numbers that name no calendar day, give NaT.
ToDatetime(c) ==
    IF Len(c) = 3 /\ c[3] \in 1970..2100 /\ c[1] \in 1..12
       /\ c[2] >= 1 /\ c[2] <= DaysInMonth(c[3], c[1])
    THEN Some([y |-> c[3], m |-> c[1], d |-> c[2]])
    ELSE NaN

\* ------------------------------------------------------------ time codes
\* A cell of the time column is what read_csv made of it: an integer, a
\* float (when the column holds missing values), NaN, or text.
IntCell(n) == [k |-> "int", v |-> n, s |-> <<>>]

FloatCell(n) == [k |-> "float", v |-> n, s |-> <<>>]

NanCell == [k |-> "nan", v |-> 0, s |-> <<>>]

StrCell(t) == [k |-> "str", v |-> 0, s |-> t]

\* astype(str) of one cell
AsStr(c) ==
    CASE c.k = "int" -> IntToStr(c.v)
      [] c.k = "float" -> IntToStr(c.v) \o <<".", "0">>
      [] c.k = "nan" -> <<"n", "a", "n">>
      [] OTHER -> c.s

\* a zfill that pads on the right
RECURSIVE ZFillRight(_, _)
ZFillRight(s, width) == IF Len(s) >= width THEN s ELSE ZFillRight(s \o <<"0">>, width)

\* str.zfill(width): pad with "0" on the left up to the width
RECURSIVE ZFill(_, _)
ZFill(s, width) == IF Len(s) >= width THEN s ELSE ZFill(<<"0">> \o s, width)

\* s[-n:]
LastChars(s, n) == IF Len(s) <= n THEN s ELSE SubSeq(s, Len(s) - n + 1, Len(s))

\* s[:n]
FirstChars(s, n) == IF Len(s) <= n THEN s ELSE SubSeq(s, 1, n)

\* line 36: the normalised four-character time code of one cell
TimeCode(c) == LastChars(ZFill(AsStr(c), 4), 4)

\* line 37: the hour of one normalised time code
HourOf(t) == ParseNumber(FirstChars(t, 2))

\* pd.to_numeric(cell, errors="coerce") of one cell of a numeric column
ToNumeric(c) ==
    CASE c.k = "int" -> Some(c.v)
      [] c.k = "float" -> Some(c.v)
      [] c.k = "nan" -> NaN
      [] OTHER -> ParseNumber(c.s)

\* ------------------------------------------------------------ the table
\* number of rows of a table (every column has the same length)
NRows(d) == IF DOMAIN d = {} THEN 0 ELSE Len(d[CHOOSE c \in DOMAIN d : TRUE])

Rows(d) == 1..NRows(d)

\* df[c] = col
SetCol(d, c, col) == [x \in DOMAIN d \cup {c} |-> IF x = c THEN col ELSE d[x]]

\* a column holding the same value in every row (df[c] = scalar)
ConstCol(d, v) == [i \in Rows(d) |-> v]

\* one row of the file, by header
Field(r, h) ==
    CASE h = H_DR_NO -> r.dr_no
      [] h = H_DATE_RPTD -> r.date_rptd
      [] h = H_DATE_OCC -> r.date_occ
      [] h = H_TIME_OCC -> r.time_occ
      [] h = H_AREA_NAME -> r.area_name
      [] h = H_CRM_CD_DESC -> r.crm_cd_desc
      [] h = H_VICT_AGE -> r.vict_age
      [] h = H_VICT_SEX -> r.vict_sex
      [] h = H_VICT_DESCENT -> r.vict_descent
      [] h = H_LAT -> r.lat
      [] h = H_LON -> r.lon
      [] OTHER -> r.status

\* pd.read_csv: the rows of the file as a table with the headers hs
ReadCsv(rows, hs) == [h \in hs |-> [i \in 1..Len(rows) |-> Field(rows[i], h)]]

\* an ordinary incident: Monday 2020-01-06, 12:00
DefaultRow ==
    [dr_no |-> Some(1), date_rptd |-> <<1, 7, 2020>>, date_occ |-> <<1, 6, 2020>>,
     time_occ |-> IntCell(1200), area_name |-> Some("Central"),
     crm_cd_desc |-> Some("BURGLARY"), vict_age |-> IntCell(30),
     vict_sex |-> Some("F"), vict_descent |-> Some("H"),
     lat |-> Some(34), lon |-> Some(-118), status |-> Some("IC")]

\* seven incidents, one on each day of the week of Monday 2020-01-06
WeekBlock == [i \in 1..7 |-> [DefaultRow EXCEPT !.date_occ = <<1, 5 + i, 2020>>]]

NoError == [step |-> "", kind |-> "", what |-> <<>>]

NoPivot == [index |-> {}, columns |-> <<>>, cell |-> <<>>]

\* the state before the script starts: the file exists, nothing is loaded
InitWith(Bases, RowSet, n, HeaderSets) ==
    /\ \E base \in Bases, extra \in SeqsUpTo(RowSet, n), hs \in HeaderSets :
          csv = [rows |-> base \o extra, headers |-> hs \cup {H_STATUS}]
    /\ pc = "load"
    /\ df = <<>>
    /\ out = <<>>
    /\ figs = <<>>
    /\ err = NoError
    /\ monthly = <<>>
    /\ pivot = NoPivot
    /\ pivot2 = NoPivot
    /\ valid_ages = {}
    /\ ages = {}
    /\ max_descent = <<>>
    /\ counts = <<>>
    /\ descent_counts = <<>>
    /\ sub = {}

results == <<out, figs, monthly, pivot, pivot2, valid_ages, ages,
             max_descent, counts, descent_counts, sub>>

Raise(kind, what) ==
    /\ err' = [step |-> pc, kind |-> kind, what |-> what]
    /\ pc' = "failed"

\* ------------------------------------------------------------- the steps
\* lines 11-18: the figures folder and read_csv
Load ==
    /\ pc = "load"
    /\ df' = ReadCsv(csv.rows, csv.headers)
    /\ pc' = "normalize"
    /\ UNCHANGED <<csv, err, results>>

\* line 23: df.columns = df.columns.str.strip().str.lower().str.replace(...)
NormalizeColumns ==
    /\ pc = "normalize"
    /\ df' = [c \in {NormalizeName(h) : h \in DOMAIN df} |->
                df[CHOOSE h \in DOMAIN df : NormalizeName(h) = c]]
    /\ pc' = "dates"
    /\ UNCHANGED <<csv, err, results>>

\* lines 29-32: date_occ, or else date_rptd, parsed into date_occ
HandleDates ==
    /\ pc = "dates"
    /\ df' = IF date_occ \in DOMAIN df
             THEN SetCol(df, date_occ, [i \in Rows(df) |-> ToDatetime(df[date_occ][i])])
             ELSE IF date_rptd \in DOMAIN df
             THEN SetCol(df, date_occ, [i \in Rows(df) |-> ToDatetime(df[date_rptd][i])])
             ELSE df
    /\ pc' = "time"
    /\ UNCHANGED <<csv, err, results>>

\* lines 35-39: the time code and the hour
ParseTime ==
    /\ pc = "time"
    /\ df' = IF time_occ \in DOMAIN df
             THEN LET codes == [i \in Rows(df) |-> TimeCode(df[time_occ][i])]
                  IN  SetCol(SetCol(df, time_occ, codes), hour,
                             [i \in Rows(df) |-> HourOf(codes[i])])
             ELSE SetCol(df, hour, ConstCol(df, NaN))
    /\ pc' = "derive"
    /\ UNCHANGED <<csv, err, results>>

\* a derivation that leaves the weekday out
DerivedColumnsNoWeekday(dates) ==
    [c \in {year, month, month_year} |->
       [i \in 1..Len(dates) |->
          IF IsNA(dates[i]) THEN NaN
          ELSE LET t == dates[i][1] IN
               CASE c = year -> Some(t.y)
                 [] c = month -> Some(t.m)
                 [] OTHER -> Some(ToPeriod(t))]]

\* the calendar columns of lines 42-45, from the parsed dates
DerivedColumns(dates) ==
    [c \in {year, month, weekday, month_year} |->
       [i \in 1..Len(dates) |->
          IF IsNA(dates[i]) THEN NaN
          ELSE LET t == dates[i][1] IN
               CASE c = year -> Some(t.y)
                 [] c = month -> Some(t.m)
                 [] c = weekday -> Some(DayName(t))
                 [] OTHER -> Some(ToPeriod(t))]]

\* lines 42-45: year, month, weekday and month_year
DeriveColumns ==
    /\ pc = "derive"
    /\ IF date_occ \notin DOMAIN df
       THEN Raise("KeyError", date_occ) /\ UNCHANGED df
       ELSE /\ df' = LET new == DerivedColumns(df[date_occ])
                     IN  [c \in DOMAIN df \cup DOMAIN new |->
                            IF c \in DOMAIN new THEN new[c] ELSE df[c]]
            /\ pc' = "kpi"
            /\ UNCHANGED err
    /\ UNCHANGED <<csv, results>>

\* ------------------------------------------------------ series helpers
\* a column of the table, empty when the table has no such column
Col(d, c) == IF c \in DOMAIN d THEN d[c] ELSE <<>>

\* the positions of a column whose cell is present
NotNA(col) == {i \in 1..Len(col) : ~IsNA(col[i])}

\* the distinct present values of a column
Values(col) == {col[i][1] : i \in NotNA(col)}

\* Series.fillna(v)
FillNa(col, v) == [i \in 1..Len(col) |-> IF IsNA(col[i]) THEN Some(v) ELSE col[i]]

\* Series.value_counts(): the count of every distinct present value
ValueCounts(col) == [v \in Values(col) |-> Cardinality({i \in 1..Len(col) : col[i] = Some(v)})]

\* the values a sorted value_counts() can have in first place: pandas leaves
\* the order of equal counts to the sort, so every most frequent value can be
\* first.  NaN stands for "no value at all".
TopChoices(col) ==
    LET vc == ValueCounts(col) IN
    IF DOMAIN vc = {} THEN {NaN}
    ELSE {Some(v) : v \in {x \in DOMAIN vc : \A w \in DOMAIN vc : vc[w] <= vc[x]}}

RECURSIVE SumOver(_, _)
SumOver(f, S) ==
    IF S = {} THEN 0
    ELSE LET x == CHOOSE x \in S : TRUE IN f[x] + SumOver(f, S \ {x})

\* Series.mean() as the exact quotient sum / n
Mean(f) == [sum |-> SumOver(f, DOMAIN f), n |-> Cardinality(DOMAIN f)]

\* Series.min() and Series.max() of a datetime column (NaT when all missing)
MinDate(col) ==
    IF NotNA(col) = {} THEN NaN
    ELSE col[CHOOSE i \in NotNA(col) : \A j \in NotNA(col) : DateLE(col[i][1], col[j][1])]

MaxDate(col) ==
    IF NotNA(col) = {} THEN NaN
    ELSE col[CHOOSE i \in NotNA(col) : \A j \in NotNA(col) : DateLE(col[j][1], col[i][1])]

\* df.groupby(key).size(): the number of rows of every present key
GroupSize(col) == ValueCounts(col)

\* lines 71-72: the ages that parse to a number in (0, 120), kept under
\* their row positions
ValidAges(col) ==
    LET num == [i \in 1..Len(col) |-> ToNumeric(col[i])]
    IN  [i \in {j \in 1..Len(col) : ~IsNA(num[j]) /\ num[j][1] > 0 /\ num[j][1] < 120} |->
           num[i][1]]

\* a histogram filter that lets the age 120 through
HistAgesInclusive(col) ==
    LET num == [i \in 1..Len(col) |-> ToNumeric(col[i])]
    IN  [i \in {j \in 1..Len(col) : ~IsNA(num[j]) /\ num[j][1] > 0 /\ num[j][1] <= 120} |->
           num[i][1]]

\* lines 145-146: the same filter, written again for the histogram
HistAges(col) ==
    LET num == [i \in 1..Len(col) |-> ToNumeric(col[i])]
    IN  [i \in {j \in 1..Len(col) : ~IsNA(num[j]) /\ num[j][1] > 0 /\ num[j][1] < 120} |->
           num[i][1]]

\* Series.nlargest(n): the n largest counts; which of several equal counts
\* are kept at the cut is left to the sort
NLargest(vc, n) ==
    IF Cardinality(DOMAIN vc) <= n THEN {vc}
    ELSE {[v \in S |-> vc[v]] :
            S \in {T \in SUBSET DOMAIN vc :
                     /\ Cardinality(T) = n
                     /\ \A a \in T, b \in DOMAIN vc \ T : vc[a] >= vc[b]}}

\* DataFrame.sample(n) without replacement: the possible sets of row labels
SampleChoices(S, n) ==
    IF n = Cardinality(S) THEN {S} ELSE {T \in SUBSET S : Cardinality(T) = n}

\* helper.py: the descent codes and their labels
descent_map ==
    [c \in {"A", "B", "C", "D", "F", "G", "H", "I", "J", "K", "L", "O", "P", "S",
            "U", "V", "W", "X", "Z"} |->
       CASE c = "A" -> "Other Asian"
         [] c = "B" -> "Black"
         [] c = "C" -> "Chinese"
         [] c = "D" -> "Cambodian"
         [] c = "F" -> "Filipino"
         [] c = "G" -> "Guamanian"
         [] c = "H" -> "Hispanic/Latin/Mexican"
         [] c = "I" -> "American Indian/Alaskan Native"
         [] c = "J" -> "Japanese"
         [] c = "K" -> "Korean"
         [] c = "L" -> "Laotian"
         [] c = "O" -> "Other"
         [] c = "P" -> "Pacific Islander"
         [] c = "S" -> "Samoan"
         [] c = "U" -> "Hawaiian"
         [] c = "V" -> "Vietnamese"
         [] c = "W" -> "White"
         [] c = "X" -> "Unknown"
         [] OTHER -> "Asian Indian"]

\* ------------------------------------------------------------------ KPIs
\* lines 50-52
KpiHead(d) ==
    << <<"========= KPI Summary =========">>,
       <<"Total records:", NRows(d)>>,
       <<"Date range:", MinDate(d[date_occ]), MaxDate(d[date_occ])>> >>

\* line 55
KpiCrimeCount(d) == << <<"Unique crime types:", Cardinality(Values(d[crm_cd_desc]))>> >>

\* line 57
KpiCrimeTop(tc) == << <<"Most common crime type:", tc[1]>> >>

\* lines 61-62
KpiArea(d, ta) ==
    << <<"Top area by count:", ta[1]>>,
       <<"Crimes in", ta[1], ValueCounts(d[area_name])[ta[1]]>> >>

\* lines 65-67
KpiMonthly(d) ==
    IF month_year \in DOMAIN d
    THEN << <<"Average crimes per month:", Mean(GroupSize(d[month_year]))>> >>
    ELSE <<>>

\* lines 73-74
KpiAge(va) ==
    IF Cardinality(DOMAIN va) > 0 THEN << <<"Average victim age:", Mean(va)>> >> ELSE <<>>

\* line 77: value_counts().nlargest(1) as a series of at most one item
NLargest1(col, td) == IF IsNA(td) THEN <<>> ELSE << <<td[1], ValueCounts(col)[td[1]]>> >>

\* lines 50-82: the KPI block.  tc, ta and td are the values that head the
\* sorted counts of crime type, area and descent code.
KpiSummary ==
    /\ pc = "kpi"
    /\ \E tc \in TopChoices(Col(df, crm_cd_desc)),
          ta \in TopChoices(Col(df, area_name)),
          td \in TopChoices(FillNa(Col(df, vict_descent), "X")) :
         LET has(c) == c \in DOMAIN df
             l1 == KpiHead(df)
             l2 == IF has(crm_cd_desc) THEN l1 \o KpiCrimeCount(df) ELSE l1
             l3 == IF has(crm_cd_desc) THEN l2 \o KpiCrimeTop(tc) ELSE l2
             l4 == IF has(area_name) THEN l3 \o KpiArea(df, ta) ELSE l3
             l5 == l4 \o KpiMonthly(df)
             va == IF has(vict_age) THEN ValidAges(df[vict_age]) ELSE valid_ages
             l6 == IF has(vict_age) THEN l5 \o KpiAge(va) ELSE l5
             md == IF has(vict_descent)
                   THEN NLargest1(FillNa(df[vict_descent], "X"), td) ELSE max_descent
             l7 == IF has(vict_descent) THEN l6 \o << <<"Top victim descent code:">> >> ELSE l6
         IN
         IF has(crm_cd_desc) /\ IsNA(tc)
         THEN \* line 56: idxmax of an empty series
              /\ Raise("ValueError", crm_cd_desc)
              /\ out' = l2
              /\ UNCHANGED <<valid_ages, max_descent>>
         ELSE IF has(area_name) /\ IsNA(ta)
         THEN \* line 60: idxmax of an empty series
              /\ Raise("ValueError", area_name)
              /\ out' = l3
              /\ UNCHANGED <<valid_ages, max_descent>>
         ELSE IF has(vict_descent) /\ md # <<>> /\ md[1][1] \notin DOMAIN descent_map
         THEN \* line 80: descent_map[code] of a code that is no key
              /\ Raise("KeyError", vict_descent)
              /\ out' = l7
              /\ valid_ages' = va
              /\ max_descent' = md
         ELSE /\ out' = l7 \o (IF has(vict_descent) /\ md # <<>>
                               THEN << <<descent_map[md[1][1]], md[1][2]>> >> ELSE <<>>)
                           \o << <<"===============================">> >>
              /\ valid_ages' = va
              /\ max_descent' = md
              /\ pc' = "monthly_trend"
              /\ UNCHANGED err
    /\ UNCHANGED <<csv, df, figs, monthly, pivot, pivot2, ages, counts, descent_counts, sub>>

\* ---------------------------------------------------------------- charts
SAMPLE_SIZE == 100000

\* the weekday names in the order sort_index gives the pivot's columns
SortedWeekdays == <<"Friday", "Monday", "Saturday", "Sunday", "Thursday", "Tuesday", "Wednesday">>

SortedMonths == <<1, 2, 3, 4, 5, 6, 7, 8, 9, 10, 11, 12>>

\* df.dropna(subset=cs): the row labels whose cells of cs are all present
DropNa(d, cs) == {i \in Rows(d) : \A c \in cs : ~IsNA(d[c][i])}

\* a pivot that counts the rows of a group (aggfunc="size")
PivotTableSize(d, rows, idx, col, val, sorted) ==
    LET R == {i \in rows : ~IsNA(d[idx][i]) /\ ~IsNA(d[col][i])}
        present == {d[col][i][1] : i \in R}
        IsPresent(w) == w \in present
        index == {d[idx][i][1] : i \in R}
    IN  [index |-> index,
         columns |-> SelectSeq(sorted, IsPresent),
         cell |-> [k \in index \X present |->
                     Cardinality({i \in R : /\ d[idx][i][1] = k[1]
                                            /\ d[col][i][1] = k[2]})]]

\* pd.pivot_table(d.loc[rows], index=idx, columns=col, values=val,
\* aggfunc="count", fill_value=0): rows with a missing key are left out of
\* the groups, a cell counts the present values of val, and a combination
\* of a row key and a column key without a group is filled with 0.
\* sorted lists the possible column keys in sort order.
PivotTable(d, rows, idx, col, val, sorted) ==
    LET R == {i \in rows : ~IsNA(d[idx][i]) /\ ~IsNA(d[col][i])}
        present == {d[col][i][1] : i \in R}
        IsPresent(w) == w \in present
        index == {d[idx][i][1] : i \in R}
    IN  [index |-> index,
         columns |-> SelectSeq(sorted, IsPresent),
         cell |-> [k \in index \X present |->
                     Cardinality({i \in R : /\ d[idx][i][1] = k[1]
                                            /\ d[col][i][1] = k[2]
                                            /\ ~IsNA(d[val][i])})]]

\* pivot[names]: the listed columns in the listed order
Reorder(p, names) ==
    [index |-> p.index,
     columns |-> names,
     cell |-> [k \in p.index \X Range(names) |-> p.cell[k]]]

\* plt.savefig(os.path.join(figures_folder, name))
SaveFig(name) == figs' = Append(figs, name)

\* lines 90-99
MonthlyTrend ==
    /\ pc = "monthly_trend"
    /\ monthly' = GroupSize(df[month_year])
    /\ SaveFig("monthly_trend.png")
    /\ pc' = "crimes_weekday"
    /\ UNCHANGED <<csv, df, err, out, pivot, pivot2, valid_ages, ages, max_descent,
                   counts, descent_counts, sub>>

\* lines 103-107
CrimesWeekday ==
    /\ pc = "crimes_weekday"
    /\ weekday \in DOMAIN df
    /\ SaveFig("crimes_weekday.png")
    /\ pc' = "crimes_hours"
    /\ UNCHANGED <<csv, df, err, out, monthly, pivot, pivot2, valid_ages, ages,
                   max_descent, counts, descent_counts, sub>>

\* lines 111-114
CrimesHours ==
    /\ pc = "crimes_hours"
    /\ hour \in DOMAIN df
    /\ SaveFig("crimes_hours.png")
    /\ pc' = "hour_weekday_heatmap"
    /\ UNCHANGED <<csv, df, err, out, monthly, pivot, pivot2, valid_ages, ages,
                   max_descent, counts, descent_counts, sub>>

\* lines 118-123
HourWeekdayHeatmap ==
    /\ pc = "hour_weekday_heatmap"
    /\ IF dr_no \notin DOMAIN df
       THEN \* line 118: the values column is not in the table
            Raise("KeyError", dr_no) /\ UNCHANGED <<pivot, figs>>
       ELSE LET p == PivotTable(df, Rows(df), hour, weekday, dr_no, SortedWeekdays) IN
            IF \E w \in Range(WEEKDAYS) : w \notin Range(p.columns)
            THEN \* line 119: a listed weekday is no column of the pivot
                 /\ Raise("KeyError", weekday)
                 /\ pivot' = p
                 /\ UNCHANGED figs
            ELSE /\ pivot' = Reorder(p, WEEKDAYS)
                 /\ SaveFig("hour_weekday_heatmap.png")
                 /\ pc' = "top_areas"
                 /\ UNCHANGED err
    /\ UNCHANGED <<csv, df, out, monthly, pivot2, valid_ages, ages, max_descent,
                   counts, descent_counts, sub>>

\* lines 127-131
TopAreas ==
    /\ pc = "top_areas"
    /\ IF area_name \in DOMAIN df THEN SaveFig("top_areas.png") ELSE UNCHANGED figs
    /\ pc' = "top_crimes"
    /\ UNCHANGED <<csv, df, err, out, monthly, pivot, pivot2, valid_ages, ages,
                   max_descent, counts, descent_counts, sub>>

\* lines 135-140
TopCrimes ==
    /\ pc = "top_crimes"
    /\ IF crm_cd_desc \in DOMAIN df THEN SaveFig("top_crimes.png") ELSE UNCHANGED figs
    /\ pc' = "victim_age"
    /\ UNCHANGED <<csv, df, err, out, monthly, pivot, pivot2, valid_ages, ages,
                   max_descent, counts, descent_counts, sub>>

\* lines 144-152
VictimAge ==
    /\ pc = "victim_age"
    /\ IF vict_age \in DOMAIN df
       THEN ages' = HistAges(df[vict_age]) /\ SaveFig("victim_age.png")
       ELSE UNCHANGED <<ages, figs>>
    /\ pc' = "victim_sex"
    /\ UNCHANGED <<csv, df, err, out, monthly, pivot, pivot2, valid_ages, max_descent,
                   counts, descent_counts, sub>>

\* lines 156-172
VictimSex ==
    /\ pc = "victim_sex"
    /\ IF vict_sex \in DOMAIN df
       THEN counts' = ValueCounts(FillNa(df[vict_sex], "Unknown")) /\ SaveFig("victim_sex.png")
       ELSE UNCHANGED <<counts, figs>>
    /\ pc' = "victim_descent"
    /\ UNCHANGED <<csv, df, err, out, monthly, pivot, pivot2, valid_ages, ages,
                   max_descent, descent_counts, sub>>

\* a lookup that labels a code that is no key "Unknown"
MapDescentDefault(col) ==
    [i \in 1..Len(col) |->
       IF IsNA(col[i]) THEN NaN
       ELSE IF col[i][1] \in DOMAIN descent_map THEN Some(descent_map[col[i][1]])
       ELSE Some("Unknown")]

\* Series.map(descent_map): a code that is no key of the dict becomes NaN
MapDescent(col) ==
    [i \in 1..Len(col) |->
       IF ~IsNA(col[i]) /\ col[i][1] \in DOMAIN descent_map
       THEN Some(descent_map[col[i][1]]) ELSE NaN]

\* lines 177-184
VictimDescent ==
    /\ pc = "victim_descent"
    /\ IF vict_descent \in DOMAIN df
       THEN /\ \E top \in NLargest(ValueCounts(MapDescent(FillNa(df[vict_descent], "X"))), 10) :
                  descent_counts' = top
            /\ SaveFig("victim_descent.png")
       ELSE UNCHANGED <<descent_counts, figs>>
    /\ pc' = "la_lat_lon"
    /\ UNCHANGED <<csv, df, err, out, monthly, pivot, pivot2, valid_ages, ages,
                   max_descent, counts, sub>>

\* lines 188-197: sample(n) of the geocoded rows, without replacement
LatLonScatter ==
    /\ pc = "la_lat_lon"
    /\ IF {lat, lon} \subseteq DOMAIN df
       THEN LET geo == DropNa(df, {lat, lon})
                n == Min2(SAMPLE_SIZE, NRows(df))
            IN  IF n > Cardinality(geo)
                THEN \* line 189: a sample larger than the population
                     Raise("ValueError", lat) /\ UNCHANGED <<sub, figs>>
                ELSE /\ \E S \in SampleChoices(geo, n) : sub' = S
                     /\ SaveFig("la_lat_lon.png")
                     /\ pc' = "year_month_heatmap"
                     /\ UNCHANGED err
       ELSE /\ pc' = "year_month_heatmap"
            /\ UNCHANGED <<sub, figs, err>>
    /\ UNCHANGED <<csv, df, out, monthly, pivot, pivot2, valid_ages, ages, max_descent,
                   counts, descent_counts>>

\* lines 201-207
YearMonthHeatmap ==
    /\ pc = "year_month_heatmap"
    /\ pivot2' = PivotTable(df, DropNa(df, {year, month}), year, month, dr_no, SortedMonths)
    /\ SaveFig("year_month_heatmap.png")
    /\ pc' = "show"
    /\ UNCHANGED <<csv, df, err, out, monthly, pivot, valid_ages, ages, max_descent,
                   counts, descent_counts, sub>>

\* lines 209-210
Show ==
    /\ pc = "show"
    /\ pc' = "done"
    /\ UNCHANGED <<csv, df, err, results>>

Next ==
    \/ Load
    \/ NormalizeColumns
    \/ HandleDates
    \/ ParseTime
    \/ DeriveColumns
    \/ KpiSummary
    \/ MonthlyTrend
    \/ CrimesWeekday
    \/ CrimesHours
    \/ HourWeekdayHeatmap
    \/ TopAreas
    \/ TopCrimes
    \/ VictimAge
    \/ VictimSex
    \/ VictimDescent
    \/ LatLonScatter
    \/ YearMonthHeatmap
    \/ Show

\* ------------------------------------------------------- specifications
\* every subset of the columns the script reads, over a few small tables
Init == InitWith({WeekBlock}, {DefaultRow}, MaxRows, SUBSET Headers)

Spec == Init /\ [][Next]_vars

\* tables that differ in the time column, with and without the column
TimeCells ==
    {IntCell(5), IntCell(130), IntCell(2300), IntCell(12345), FloatCell(2300), NanCell,
     StrCell(<<"2", "3", ":", "0", "0">>), StrCell(<<"a", "b">>)}

InitTime ==
    InitWith({WeekBlock}, {[DefaultRow EXCEPT !.time_occ = t] : t \in TimeCells}, MaxRows,
             {Headers, Headers \ {H_TIME_OCC}})

SpecTime == InitTime /\ [][Next]_vars

\* tables that differ in the victim ages
AgeCells ==
    {IntCell(-1), IntCell(0), IntCell(1), IntCell(119), IntCell(120), IntCell(150), NanCell,
     StrCell(<<"4", "5">>), StrCell(<<"x">>)}

InitAge ==
    InitWith({WeekBlock}, {[DefaultRow EXCEPT !.vict_age = a] : a \in AgeCells}, MaxRows,
             {Headers, Headers \ {H_VICT_AGE}})

SpecAge == InitAge /\ [][Next]_vars

\* tables that differ in the dates of occurrence
DateCells == {<<1, 1, 2020>>, <<1, 15, 2020>>, <<2, 1, 2020>>, <<2, 30, 2020>>, <<>>}

InitMonthly ==
    InitWith({<<>>, WeekBlock}, {[DefaultRow EXCEPT !.date_occ = c] : c \in DateCells},
             MaxDatedRows, {Headers, Headers \ {H_DATE_OCC}})

SpecMonthly == InitMonthly /\ [][Next]_vars

\* tables whose rows lack a date, an hour or an identifier
PivotRows ==
    {[DefaultRow EXCEPT !.date_occ = c, !.time_occ = t, !.dr_no = n] :
        c \in {<<2, 1, 2020>>, <<>>}, t \in {IntCell(1200), IntCell(2300), NanCell},
        n \in {Some(1), NaN}}

InitPivot == InitWith({<<>>, WeekBlock}, PivotRows, MaxRows, {Headers})

SpecPivot == InitPivot /\ [][Next]_vars

\* tables with descent codes that are no key of descent_map
MixedBlock ==
    [i \in 1..7 |->
       [WeekBlock[i] EXCEPT !.vict_descent = IF i <= 3 THEN Some("-") ELSE Some("H")]]

DescentCells == {Some("B"), Some("W"), Some("-"), NaN}

InitDescent ==
    InitWith({<<>>, WeekBlock, MixedBlock},
             {[DefaultRow EXCEPT !.vict_descent = c] : c \in DescentCells}, MaxRows,
             {Headers, Headers \ {H_VICT_DESCENT}})

SpecDescent == InitDescent /\ [][Next]_vars

\* tables whose rows lack a coordinate
InitScatter ==
    InitWith({WeekBlock},
             {[DefaultRow EXCEPT !.lat = a, !.lon = o] :
                 a \in {Some(34), NaN}, o \in {Some(-118), NaN}},
             MaxRows, {Headers, Headers \ {H_LAT}})

SpecScatter == InitScatter /\ [][Next]_vars

\* --------------------------------------------------------- program order
STEPS ==
    <<"load", "normalize", "dates", "time", "derive", "kpi", "monthly_trend",
      "crimes_weekday", "crimes_hours", "hour_weekday_heatmap", "top_areas", "top_crimes",
      "victim_age", "victim_sex", "victim_descent", "la_lat_lon", "year_month_heatmap",
      "show", "done">>

StepIndex(s) == CHOOSE i \in 1..Len(STEPS) : STEPS[i] = s

\* the step the run is at, or failed in
AtStep == IF pc = "failed" THEN err.step ELSE pc

\* the step s has run to its end
Completed(s) == StepIndex(AtStep) > StepIndex(s)

\* the step s has run, to its end or to the statement that raised
Reached(s) == Completed(s) \/ (pc = "failed" /\ err.step = s)

CHART_FILES ==
    <<"monthly_trend.png", "crimes_weekday.png", "crimes_hours.png",
      "hour_weekday_heatmap.png", "top_areas.png", "top_crimes.png", "victim_age.png",
      "victim_sex.png", "victim_descent.png", "la_lat_lon.png", "year_month_heatmap.png">>

\* ================================================================ claims
\* the cell of row i of the file in the column r selects
InputRows == 1..Len(csv.rows)

\* ---------------------------------------------------------------- C1
\* character j of a text padded with zeros on the left to four characters
\* and cut to its last four
CodeChar(text, j) ==
    LET L == Len(text) IN
    IF L >= 4 THEN text[L - 4 + j]
    ELSE IF j <= 4 - L THEN "0" ELSE text[j - (4 - L)]

\* the hour the claim gives a time code rendered as text
ClaimedHour(text) ==
    LET a == CodeChar(text, 1)
        b == CodeChar(text, 2)
    IN  IF IsDigit(a) /\ IsDigit(b) THEN Some(10 * DigitVal(a) + DigitVal(b)) ELSE NaN

\* C1: after the time-parsing step the hour of every row is the integer read
\* from the first two characters of the time code rendered as text, padded
\* with zeros on the left to four characters and cut to its last four
\* (missing when the two characters are no number); without a time column
\* the hour is missing in every row.
C1_HourFromTimeCode ==
    Completed("time") =>
        /\ hour \in DOMAIN df
        /\ Len(df[hour]) = Len(csv.rows)
        /\ \A i \in InputRows :
              df[hour][i] = IF H_TIME_OCC \in csv.headers
                            THEN ClaimedHour(AsStr(csv.rows[i].time_occ))
                            ELSE NaN

\* a time code of three digits has been parsed to the hour 1, and a code of
\* five digits to the hour of its last four
C1_Witness ==
    /\ Completed("time")
    /\ H_TIME_OCC \in csv.headers
    /\ \E i, j \in InputRows :
          /\ csv.rows[i].time_occ = IntCell(130)
          /\ df[hour][i] = Some(1)
          /\ csv.rows[j].time_occ = IntCell(12345)
          /\ df[hour][j] = Some(23)

\* ---------------------------------------------------------------- C5
\* the rows whose age parses to a number strictly between 0 and 120
PlausibleRows == {i \in InputRows : \E a \in 1..119 : ToNumeric(csv.rows[i].vict_age) = Some(a)}

\* C5: the age mean and the age histogram are both computed over exactly the
\* rows whose age parses to a number a with 0 < a < 120, and over the same
\* rows.
C5_AgeRange ==
    H_VICT_AGE \in csv.headers =>
        /\ Completed("kpi") =>
              /\ DOMAIN valid_ages = PlausibleRows
              /\ \A i \in PlausibleRows : ToNumeric(csv.rows[i].vict_age) = Some(valid_ages[i])
              /\ (PlausibleRows # {}) =
                    (\E k \in 1..Len(out) :
                        /\ out[k][1] = "Average victim age:"
                        /\ out[k][2].n = Cardinality(PlausibleRows))
        /\ Completed("victim_age") =>
              /\ DOMAIN ages = PlausibleRows
              /\ ages = valid_ages

\* both have been computed for a table that holds the ages 120 and 150
C5_Witness ==
    /\ H_VICT_AGE \in csv.headers
    /\ Completed("victim_age")
    /\ \E i, j \in InputRows :
          /\ csv.rows[i].vict_age = IntCell(150)
          /\ csv.rows[j].vict_age = IntCell(120)
          /\ i \notin DOMAIN ages
          /\ j \notin DOMAIN valid_ages
    /\ DOMAIN ages # {}

\* ---------------------------------------------------------------- C6
\* the calendar months of the parsed dates, and the rows of each
ParsedMonths ==
    {[y |-> df[date_occ][i][1].y, m |-> df[date_occ][i][1].m] : i \in NotNA(df[date_occ])}

RowsOfMonth(p) ==
    {i \in NotNA(df[date_occ]) : df[date_occ][i][1].y = p.y /\ df[date_occ][i][1].m = p.m}

ScenarioDates == <<(<<1, 1, 2020>>), (<<1, 15, 2020>>), (<<2, 1, 2020>>)>>

IsScenario ==
    /\ H_DATE_OCC \in csv.headers
    /\ Len(csv.rows) = 3
    /\ \A i \in 1..3 : csv.rows[i].date_occ = ScenarioDates[i]

\* C6: the monthly series has one entry per calendar month of the parsed
\* dates, holding the number of rows of that month (2020-01 -> 2 and
\* 2020-02 -> 1 for the dates 2020-01-01, 2020-01-15, 2020-02-01), and the
\* average per month is the mean of the same series.
C6_MonthlySeries ==
    /\ Completed("monthly_trend") =>
          /\ DOMAIN monthly = ParsedMonths
          /\ \A p \in ParsedMonths : monthly[p] = Cardinality(RowsOfMonth(p))
          /\ IsScenario =>
                /\ DOMAIN monthly = {[y |-> 2020, m |-> 1], [y |-> 2020, m |-> 2]}
                /\ monthly[[y |-> 2020, m |-> 1]] = 2
                /\ monthly[[y |-> 2020, m |-> 2]] = 1
    /\ Completed("kpi") =>
          \E k \in 1..Len(out) :
             /\ out[k][1] = "Average crimes per month:"
             /\ out[k][2] = [sum |-> Cardinality(NotNA(df[date_occ])),
                             n |-> Cardinality(ParsedMonths)]

\* the series of the three dates of the scenario has been computed
C6_Witness == Completed("monthly_trend") /\ IsScenario /\ Cardinality(DOMAIN monthly) = 2

\* ---------------------------------------------------------- C3 and C4
\* the hours, and the years, that occur in the table
HoursPresent == {df[hour][i][1] : i \in NotNA(df[hour])}

YearsPresent == {df[year][i][1] : i \in NotNA(df[year])}

\* the rows of one hour and weekday, and of one year and month
RowsOfHourDay(h, w) == {i \in Rows(df) : df[hour][i] = Some(h) /\ df[weekday][i] = Some(w)}

RowsOfYearMonth(y, m) == {i \in Rows(df) : df[year][i] = Some(y) /\ df[month][i] = Some(m)}

\* pd.pivot_table of line 118 has returned
HourPivotBuilt ==
    /\ Reached("hour_weekday_heatmap")
    /\ ~(pc = "failed" /\ err.step = "hour_weekday_heatmap" /\ err.what = dr_no)

CellSum(p) == SumOver(p.cell, DOMAIN p.cell)

\* C3: the hour-by-weekday pivot has the columns Monday..Sunday in that
\* order and, for every hour present and every weekday, a cell holding the
\* number of matching rows (0 when there is none); the year-by-month pivot
\* has such a cell for every year present and every month.
C3_PivotsComplete ==
    /\ Reached("hour_weekday_heatmap") =>
          /\ pivot.columns = WEEKDAYS
          /\ \A h \in HoursPresent, w \in Range(WEEKDAYS) :
                /\ <<h, w>> \in DOMAIN pivot.cell
                /\ pivot.cell[<<h, w>>] = Cardinality(RowsOfHourDay(h, w))
    /\ Completed("year_month_heatmap") =>
          \A y \in YearsPresent, m \in 1..12 :
             /\ <<y, m>> \in DOMAIN pivot2.cell
             /\ pivot2.cell[<<y, m>>] = Cardinality(RowsOfYearMonth(y, m))

\* C4 as claimed: the cells of the hour-by-weekday pivot add up to the
\* number of rows whose hour is present, rows without a date or without an
\* identifier included.
C4_NoRowDropped ==
    Completed("hour_weekday_heatmap") => CellSum(pivot) = Cardinality(NotNA(df[hour]))

\* C4 as amended: the cells of the hour-by-weekday pivot add up to the
\* number of rows whose hour, weekday and identifier are all present; a row
\* without a date or without an identifier is not counted.
C4_RowsWithAllKeys ==
    HourPivotBuilt =>
        /\ CellSum(pivot) =
              Cardinality(NotNA(df[hour]) \cap NotNA(df[weekday]) \cap NotNA(df[dr_no]))
        /\ \A k \in DOMAIN pivot.cell :
              pivot.cell[k] = Cardinality(RowsOfHourDay(k[1], k[2]) \cap NotNA(df[dr_no]))

\* the heatmap has been drawn from a table with a row that has an hour and
\* no date, and a row that has an hour and a date and no identifier
C4_Witness ==
    /\ Completed("hour_weekday_heatmap")
    /\ \E i, j \in Rows(df) :
          /\ ~IsNA(df[hour][i]) /\ IsNA(df[weekday][i])
          /\ ~IsNA(df[hour][j]) /\ ~IsNA(df[weekday][j]) /\ IsNA(df[dr_no][j])

\* ---------------------------------------------------------------- C7
\* the descent column of the file after fillna("X")
FilledCode(i) ==
    IF IsNA(csv.rows[i].vict_descent) THEN "X" ELSE csv.rows[i].vict_descent[1]

CodesPresent == {FilledCode(i) : i \in InputRows}

RowsOfCode(c) == {i \in InputRows : FilledCode(i) = c}

MostFrequent(c) ==
    /\ c \in CodesPresent
    /\ \A o \in CodesPresent : Cardinality(RowsOfCode(o)) <= Cardinality(RowsOfCode(c))

HasUnknownCode == \E c \in CodesPresent : c \notin DOMAIN descent_map

KnownLabels == {descent_map[c] : c \in CodesPresent \cap DOMAIN descent_map}

RowsOfLabel(l) ==
    {i \in InputRows : FilledCode(i) \in DOMAIN descent_map /\ descent_map[FilledCode(i)] = l}

\* C7 as claimed: a descent column with a code that is no key of the mapping
\* makes the run fail; the run gets neither past the top-descent statistic
\* nor past the descent chart.
C7_UnknownCodeIsFatal ==
    (H_VICT_DESCENT \in csv.headers /\ HasUnknownCode) =>
        /\ ~Completed("kpi")
        /\ ~Completed("victim_descent")

\* C7 as amended: the top-descent statistic fails with a lookup error exactly
\* when the code it selects, a most frequent code after missing values are
\* replaced by X, is no key of the mapping; any other unknown code is
\* ignored by the statistic.  The descent chart never fails on an unknown
\* code: it leaves the rows with unknown codes out of its counts.
C7_OnlyTopCodeIsFatal ==
    H_VICT_DESCENT \in csv.headers =>
        /\ (pc = "failed" /\ err.step = "kpi" /\ err.kind = "KeyError") =>
              \E c \in CodesPresent \ DOMAIN descent_map :
                 /\ MostFrequent(c)
                 /\ max_descent = << <<c, Cardinality(RowsOfCode(c))>> >>
        /\ (Completed("kpi") /\ InputRows # {}) =>
              \E c \in CodesPresent \cap DOMAIN descent_map :
                 /\ MostFrequent(c)
                 /\ max_descent = << <<c, Cardinality(RowsOfCode(c))>> >>
                 /\ \E k \in 1..Len(out) :
                       /\ out[k][1] = descent_map[c]
                       /\ out[k] = <<descent_map[c], Cardinality(RowsOfCode(c))>>
        /\ ~(pc = "failed" /\ err.step = "victim_descent")
        /\ Completed("victim_descent") =>
              /\ DOMAIN descent_counts \subseteq KnownLabels
              /\ Cardinality(KnownLabels) <= 10 => DOMAIN descent_counts = KnownLabels
              /\ \A l \in DOMAIN descent_counts :
                    descent_counts[l] = Cardinality(RowsOfLabel(l))

\* the statistic and the chart have both been produced from a table that
\* holds an unknown code
C7_Witness ==
    /\ H_VICT_DESCENT \in csv.headers
    /\ HasUnknownCode
    /\ Completed("victim_descent")
    /\ max_descent # <<>>

\* ---------------------------------------------------------------- C9
GeocodedRows == {i \in InputRows : ~IsNA(csv.rows[i].lat) /\ ~IsNA(csv.rows[i].lon)}

\* C9: with a lat and a lon column the sampling step never fails, and the
\* scatter is drawn from min(100000, number of geocoded rows) distinct
\* geocoded rows.
C9_SampleOfGeocoded ==
    ({H_LAT, H_LON} \subseteq csv.headers /\ Reached("la_lat_lon")) =>
        /\ Completed("la_lat_lon")
        /\ sub \subseteq GeocodedRows
        /\ Cardinality(sub) = Min2(100000, Cardinality(GeocodedRows))

\* ---------------------------------------------------------------- C2
\* the columns of the file a chart is drawn from
ChartSource(f) ==
    CASE f = "monthly_trend.png" -> {{H_DATE_OCC}, {H_DATE_RPTD}}
      [] f = "crimes_weekday.png" -> {{H_DATE_OCC}, {H_DATE_RPTD}}
      [] f = "crimes_hours.png" -> {{H_TIME_OCC}}
      [] f = "hour_weekday_heatmap.png" ->
            {{H_DATE_OCC, H_TIME_OCC, H_DR_NO}, {H_DATE_RPTD, H_TIME_OCC, H_DR_NO}}
      [] f = "top_areas.png" -> {{H_AREA_NAME}}
      [] f = "top_crimes.png" -> {{H_CRM_CD_DESC}}
      [] f = "victim_age.png" -> {{H_VICT_AGE}}
      [] f = "victim_sex.png" -> {{H_VICT_SEX}}
      [] f = "victim_descent.png" -> {{H_VICT_DESCENT}}
      [] f = "la_lat_lon.png" -> {{H_LAT, H_LON}}
      [] OTHER -> {{H_DATE_OCC, H_DR_NO}, {H_DATE_RPTD, H_DR_NO}}

HasSource(f) == \E cs \in ChartSource(f) : cs \subseteq csv.headers

\* C2: whatever columns the file lacks, the run raises nothing and ends with
\* exactly the charts whose source columns the file has.
C2_MissingColumnsSkipped ==
    /\ pc # "failed"
    /\ pc = "done" => \A k \in 1..Len(CHART_FILES) :
                         (CHART_FILES[k] \in Range(figs)) = HasSource(CHART_FILES[k])

\* ---------------------------------------------------------------- C10
DERIVED == {date_occ, hour, year, month, weekday, month_year}

\* the steps that print statistics or draw charts
ReportingSteps == {STEPS[k] : k \in 6..17}

\* s is t with some of its elements left out
RECURSIVE IsSubsequence(_, _)
IsSubsequence(s, t) ==
    IF s = <<>> THEN TRUE
    ELSE IF t = <<>> THEN FALSE
    ELSE IF Head(s) = Head(t) THEN IsSubsequence(Tail(s), Tail(t))
    ELSE IsSubsequence(s, Tail(t))

\* the file a step writes, if it writes one
FileOfStep(s) == s \o ".png"

\* C10: every derived column is in the table before a statistic or a chart
\* runs; the steps run once each, in the order of the script; the chart
\* files are written in a fixed order under distinct names, each by its own
\* step, and no step takes a file back.
C10_DerivedBeforeUse ==
    /\ [](/\ pc \in ReportingSteps => DERIVED \subseteq DOMAIN df
          /\ IsSubsequence(figs, CHART_FILES)
          /\ Cardinality(Range(CHART_FILES)) = 11)
    /\ [][/\ pc' # pc => \/ pc' = "failed"
                         \/ StepIndex(pc') = StepIndex(pc) + 1
          /\ figs' # figs => /\ pc \in ReportingSteps
                             /\ figs' = Append(figs, FileOfStep(pc))]_vars

\* a run over a file with every column has ended with all eleven charts
C10_Witness == pc = "done" /\ figs = CHART_FILES /\ Headers \subseteq csv.headers

====
